---- MODULE Spec2Model ----
(***************************************************************************)
(* Model of src/helpers/completion.ts of ai-shell: the streaming           *)
(* completion pipeline (generateCompletion, readFullResponse, readData,    *)
(* parseContent, extractScriptAndExplanation).                             *)
(*                                                                         *)
(* Text.  A JavaScript string is modelled as a sequence of lexical atoms.  *)
(* A content atom is a TLA+ string: "'" stands for one backquote, "''" for *)
(* two and "'''" for a fence of three; the others are "\n", " ", a run of  *)
(* letters ("bash", "sh", "ls", ...) or an opaque run that starts with a   *)
(* non-letter ("[DONE]").                                                  *)
(* A wire atom (the text of a chunk) is a record [k, c]: k is the kind of  *)
(* the atom ("data:", "\n", "[DONE]", "json", "nocontent", "junk", "tail") *)
(* and c the content a "json" frame carries in choices[0].delta.content.   *)
(***************************************************************************)
EXTENDS Integers, Sequences, FiniteSets, TLC

VARIABLES
  pc,            \* position of the running operation
  input,         \* extractScriptAndExplanation: the argument fullResponse
  extracted,     \* extractScriptAndExplanation: the returned pair
  number,        \* generateCompletion: the argument number ([given, value])
  requestN,      \* generateCompletion: n of the outgoing request
  err,           \* generateCompletion: the error createChatCompletion threw
  thrown,        \* generateCompletion: what the catch block throws
  stream,        \* the chunks iterableStream yields, in order
  ci,            \* how many chunks the for-await loop has taken
  payloads,      \* chunk.toString().split of the chunk being processed
  pi,            \* index in payloads of the payload the inner loop is at
  fullResponse,  \* readFullResponse: the accumulated text
  excluded,      \* readData: the rest parameter excluded
  stopTextStream,\* readData: the cancellation flag
  data,          \* readData: the accumulated clean text
  dataStart,     \* readData: whether the content boundary was crossed
  buffer,        \* readData: the start-detection buffer
  sink,          \* readData: the arguments of the calls of writer, in order
  resolved,      \* readData: the value the promise resolved with
  rl,            \* readData: the readline interface ("none", "open", "closed")
  rawMode,       \* process.stdin raw mode
  keypressListeners, \* how many keypress listeners process.stdin holds
  stripInput,    \* stripRegexPatterns: the argument inputString
  stripOnce,     \* stripRegexPatterns: what the call returned
  stripTwice     \* stripRegexPatterns: what a call on that result returned

vars == <<pc, input, extracted, number, requestN, err, thrown,
          stream, ci, payloads, pi, fullResponse,
          excluded, stopTextStream, data, dataStart, buffer, sink, resolved,
          rl, rawMode, keypressListeners, stripInput, stripOnce, stripTwice>>

streamVars == <<stream, ci, payloads, pi>>
fullVars == <<fullResponse>>
dataVars == <<excluded, stopTextStream, data, dataStart, buffer, sink, resolved>>
ttyVars == <<rl, rawMode, keypressListeners>>

extractVars == <<input, extracted>>
stripVars == <<stripInput, stripOnce, stripTwice>>
genVars == <<number, requestN, err, thrown>>

----------------------------------------------------------------------------
(* Bounds of the model *)

\* longest response text given to extractScriptAndExplanation, in atoms
MaxText == 6

\* completion counts are drawn from -CountSlack .. MaxCompletions + CountSlack
CountSlack == 5

\* most payloads in one stream, over all its chunks
MaxPayloads == 3

----------------------------------------------------------------------------
(* Strings *)

\* all sequences over S of length 0..n
SeqUpTo(S, n) == UNION {[1..k -> S] : k \in 0..n}

\* JavaScript whitespace (\s, and what trim() removes) among the atoms
IsSpace(a) == a \in {" ", "\n"}

\* String.prototype.trim
RECURSIVE TrimStart(_)
TrimStart(s) ==
  IF s # <<>> /\ IsSpace(Head(s)) THEN TrimStart(Tail(s)) ELSE s

RECURSIVE TrimEnd(_)
TrimEnd(s) ==
  IF s # <<>> /\ IsSpace(s[Len(s)]) THEN TrimEnd(SubSeq(s, 1, Len(s) - 1)) ELSE s

Trim(s) == TrimEnd(TrimStart(s))

----------------------------------------------------------------------------
(* The event stream: chunks, payloads, parseContent *)

\* wire atoms
Lit(kind) == [k |-> kind, c |-> <<>>]
DATA == Lit("data:")            \* the prefix "data: "
NL == Lit("\n")
DONE == Lit("[DONE]")
NoContentFrame == Lit("nocontent")   \* a frame whose delta has no content
Junk == Lit("junk")                  \* text that is not JSON (a cut frame)
JunkTail == Lit("tail")              \* the rest of the cut frame
Json(content) == [k |-> "json", c |-> content]

RECURSIVE Concat(_)
Concat(ss) == IF ss = <<>> THEN <<>> ELSE Head(ss) \o Concat(Tail(ss))

\* what the transport puts in one chunk: payloads joined by the blank line
RECURSIVE Join(_)
Join(ps) ==
  IF Len(ps) <= 1 THEN Concat(ps)
  ELSE Head(ps) \o <<NL, NL>> \o Join(Tail(ps))

\* chunk.toString().split('\n\n')
RECURSIVE SplitFrom(_, _)
SplitFrom(chunk, cur) ==
  IF chunk = <<>> THEN <<cur>>
  ELSE IF Len(chunk) >= 2 /\ chunk[1] = NL /\ chunk[2] = NL
    THEN <<cur>> \o SplitFrom(SubSeq(chunk, 3, Len(chunk)), <<>>)
  ELSE SplitFrom(Tail(chunk), Append(cur, Head(chunk)))

Split(chunk) == SplitFrom(chunk, <<>>)

\* payload.includes('[DONE]')
IncludesDone(payload) ==
  \E i \in 1..Len(payload) :
    \/ payload[i] = DONE
    \/ payload[i].k = "json" /\ \E j \in 1..Len(payload[i].c) : payload[i].c[j] = "[DONE]"

\* payload.startsWith('data:')
StartsWithData(payload) == payload # <<>> /\ payload[1] = DATA

\* a content text as it stands inside a JSON string literal
EscapeJson(content) ==
  [i \in 1..Len(content) |-> IF content[i] = "\n" THEN "\\n" ELSE content[i]]

\* the text of a wire atom, in content atoms
AtomText(a) ==
  CASE a.k = "data:"     -> <<"data", ": ">>
    [] a.k = "\n"        -> <<"\n">>
    [] a.k = "[DONE]"    -> <<"[DONE]">>
    [] a.k = "json"      -> <<"{\"content\":\"">> \o EscapeJson(a.c) \o <<"\"}">>
    [] a.k = "nocontent" -> <<"{\"delta\":{}}">>
    [] a.k = "tail"      -> <<"ices\":[]}">>
    [] OTHER             -> <<"{\"cho">>

RECURSIVE PayloadText(_)
PayloadText(payload) ==
  IF payload = <<>> THEN <<>> ELSE AtomText(Head(payload)) \o PayloadText(Tail(payload))

IsNL(a) == a = NL

RECURSIVE DropLeadingNL(_)
DropLeadingNL(p) == IF p # <<>> /\ IsNL(Head(p)) THEN DropLeadingNL(Tail(p)) ELSE p

RECURSIVE DropTrailingNL(_)
DropTrailingNL(p) ==
  IF p # <<>> /\ IsNL(p[Len(p)]) THEN DropTrailingNL(SubSeq(p, 1, Len(p) - 1)) ELSE p

\* payload.replaceAll(/(\n)?^data:\s*/g, ''): without the m flag ^ is the start
\* of the string only, so the one match is a leading data: and its whitespace
StripDataPrefix(payload) ==
  IF StartsWithData(payload) THEN DropLeadingNL(Tail(payload)) ELSE payload

\* the catch of parseContent: the diagnostic string
ParseDiagnostic(payload) ==
  <<"Error", " with JSON.parse and ">> \o PayloadText(payload)
    \o <<".", "\n", "SyntaxError", ": Unexpected token">>

\* parseContent, lines 342-350
parseContent(payload) ==
  LET json == DropTrailingNL(StripDataPrefix(payload))    \* data.trim()
  IN  IF Len(json) = 1 /\ json[1].k = "json" THEN json[1].c
      ELSE IF Len(json) = 1 /\ json[1].k = "nocontent" THEN <<>>
      ELSE ParseDiagnostic(payload)

\* every way to cut a sequence of payloads into chunks of at least one payload
RECURSIVE Groupings(_)
Groupings(ps) ==
  IF ps = <<>> THEN {<<>>}
  ELSE UNION { { <<Join(SubSeq(ps, 1, k))>> \o rest :
                   rest \in Groupings(SubSeq(ps, k + 1, Len(ps))) } :
               k \in 1..Len(ps) }

\* the streams of at most n payloads drawn from P
Streams(P, n) == UNION { Groupings(ps) : ps \in SeqUpTo(P, n) }

RECURSIVE SplitAll(_)
SplitAll(chunks) ==
  IF chunks = <<>> THEN <<>> ELSE Split(Head(chunks)) \o SplitAll(Tail(chunks))

StreamIdle ==
  /\ stream = <<>>
  /\ ci = 0
  /\ payloads = <<>>
  /\ pi = 1

StripIdle ==
  /\ stripInput = <<>>
  /\ stripOnce = <<>>
  /\ stripTwice = <<>>

DataIdle ==
  /\ excluded = <<>>
  /\ stopTextStream = FALSE
  /\ data = <<>>
  /\ dataStart = FALSE
  /\ buffer = <<>>
  /\ sink = <<>>
  /\ resolved = <<>>
  /\ rl = "none"
  /\ rawMode = FALSE
  /\ keypressListeners = 0

----------------------------------------------------------------------------
(* extractScriptAndExplanation *)

\* the alternatives of (?:bash|sh) under the i flag
IsShellTag(a) == a \in {"bash", "sh", "BASH", "SH"}

\* The ways /'''(?:bash|sh)?\s*\n([\s\S]*?)\n'''/i matches s from position i:
\* t atoms of tag, k atoms of \s*, the \n, c atoms of capture, the \n, a fence.
BlockMatchesAt(s, i) ==
  { m \in [t : 0..1, k : 0..Len(s), c : 0..Len(s)] :
      LET ws  == i + 1 + m.t       \* where \s* starts
          nl  == ws + m.k          \* the \n that ends the opening line
          cap == nl + 1            \* where the capture starts
          end == cap + m.c + 1     \* the closing fence
      IN  /\ end <= Len(s)
          /\ s[i] = "'''"
          /\ m.t = 1 => IsShellTag(s[i + 1])
          /\ \A j \in ws..(nl - 1) : IsSpace(s[j])
          /\ s[nl] = "\n"
          /\ s[end - 1] = "\n"
          /\ s[end] = "'''" }

\* The match the backtracking matcher returns at position i: the optional tag
\* and \s* are greedy (longest first), the capture is lazy (shortest first).
BlockMatchAt(s, i) ==
  LET M  == BlockMatchesAt(s, i)
      t  == CHOOSE t \in {m.t : m \in M} : \A m \in M : m.t <= t
      Mt == {m \in M : m.t = t}
      k  == CHOOSE k \in {m.k : m \in Mt} : \A m \in Mt : m.k <= k
      Mk == {m \in Mt : m.k = k}
      c  == CHOOSE c \in {m.c : m \in Mk} : \A m \in Mk : c <= m.c
  IN  [from |-> i, cap |-> i + 1 + t + k + 1, len |-> c,
       to |-> i + 1 + t + k + 1 + c + 1]

\* fullResponse.match(codeBlockRegex): the leftmost match, or found = FALSE
codeBlockRegex(s) ==
  LET starts == {i \in 1..Len(s) : BlockMatchesAt(s, i) # {}}
  IN  IF starts = {}
        THEN [found |-> FALSE, from |-> 0, cap |-> 0, len |-> 0, to |-> 0]
        ELSE LET i == CHOOSE i \in starts : \A j \in starts : i <= j
                 m == BlockMatchAt(s, i)
             IN  [found |-> TRUE, from |-> m.from, cap |-> m.cap,
                  len |-> m.len, to |-> m.to]

\* match[1], the captured interior
Interior(s, m) == SubSeq(s, m.cap, m.cap + m.len - 1)

\* fullResponse.replace(codeBlockRegex, ''): the first match removed
WithoutBlock(s, m) == SubSeq(s, 1, m.from - 1) \o SubSeq(s, m.to + 1, Len(s))

extractScriptAndExplanation(response) ==
  LET match == codeBlockRegex(response)
  IN  IF match.found /\ Interior(response, match) # <<>>
        THEN [script      |-> Trim(Interior(response, match)),
              explanation |-> Trim(WithoutBlock(response, match))]
        ELSE [script |-> <<>>, explanation |-> Trim(response)]

----------------------------------------------------------------------------
(* generateCompletion *)

\* the upper clamp of n: Math.min(number, 10)
MaxCompletions == 10

Min(a, b) == IF a <= b THEN a ELSE b

\* the clamp written with Math.max in place of Math.min
RequestCountMax(num) ==
  LET v == IF num.given THEN num.value ELSE 1
  IN  IF v >= MaxCompletions THEN v ELSE MaxCompletions

\* the parameter default number = 1, then n: Math.min(number, 10)
RequestCount(num) == Min(IF num.given THEN num.value ELSE 1, MaxCompletions)

NoNumber == [given |-> FALSE, value |-> 0]
Numbers ==
  {NoNumber} \cup
  {[given |-> TRUE, value |-> v] : v \in (0 - CountSlack)..(MaxCompletions + CountSlack)}

\* JavaScript values a response body can become
Undefined == [type |-> "undefined", text |-> ""]
Str(t) == [type |-> "string", text |-> t]

\* JSON.parse of a body text: the value, or type "throws"
JSONParse(t) ==
  CASE t = "{\"error\":\"x\"}" -> [type |-> "object", text |-> t]
    [] t = "null"  -> [type |-> "null", text |-> t]
    [] t = "0"     -> [type |-> "number", text |-> t]
    [] t = "false" -> [type |-> "boolean", text |-> t]
    [] t = "\"\""  -> [type |-> "string", text |-> ""]
    [] OTHER       -> [type |-> "throws", text |-> t]

\* ToBoolean
Truthy(v) ==
  CASE v.type = "object"  -> TRUE
    [] v.type = "string"  -> v.text # ""
    [] v.type = "number"  -> v.text # "0"
    [] v.type = "boolean" -> v.text = "true"
    [] OTHER              -> FALSE

\* the body texts of an error response: empty, JSON object, HTML, JSON literals
Bodies == {"", "{\"error\":\"x\"}", "<html>", "null", "0", "false", "\"\""}
Statuses == {429, 500, 404}

\* response.data: an IncomingMessage carrying a body text, or a plain value
ResponseData ==
  {[stream |-> TRUE, value |-> Str(b)] : b \in Bodies} \cup {[stream |-> FALSE, value |-> Undefined]}

NoResponse == [present |-> FALSE, status |-> 0, data |-> [stream |-> FALSE, value |-> Undefined]]
Responses ==
  {NoResponse} \cup
  {[present |-> TRUE, status |-> st, data |-> d] : st \in Statuses, d \in ResponseData}

NoError == [code |-> "", response |-> NoResponse]
Errors == {[code |-> c, response |-> r] : c \in {"ENOTFOUND", "ERR_BAD_RESPONSE"}, r \in Responses}

\* lines 161-173: message = response?.data, read and JSON-decoded when it is a stream
Message(error) ==
  LET response == error.response
  IN  IF response.present /\ response.data.stream
        THEN LET text   == response.data.value   \* streamToString
                 parsed == JSONParse(text.text)
             IN  IF parsed.type = "throws" THEN text ELSE parsed
        ELSE response.data.value

NothingThrown == [kind |-> "none", status |-> 0, message |-> Undefined, error |-> NoError]

\* lines 151-201: what the catch block throws for error
CatchBlock(error) ==
  LET response == error.response
      message  == Message(error)
  IN  IF error.code = "ENOTFOUND"
        THEN [kind |-> "connectivity", status |-> 0, message |-> Undefined, error |-> NoError]
      ELSE IF response.present /\ response.status = 429
        THEN [kind |-> "quota", status |-> 429, message |-> message, error |-> NoError]
      ELSE IF response.present /\ Truthy(message)
        THEN [kind |-> "generic", status |-> response.status, message |-> message,
              error |-> NoError]
      ELSE [kind |-> "rethrown", status |-> 0, message |-> Undefined, error |-> error]

GenIdle ==
  /\ number = NoNumber
  /\ requestN = 0
  /\ err = NoError
  /\ thrown = NothingThrown

ExtractIdle ==
  /\ input = <<>>
  /\ extracted = [script |-> <<>>, explanation |-> <<>>]

InitGen ==
  /\ pc = "call"
  /\ number \in Numbers
  /\ requestN = 0
  /\ err = NoError
  /\ thrown = NothingThrown
  /\ ExtractIdle
  /\ StripIdle
  /\ StreamIdle
  /\ fullResponse = <<>>
  /\ DataIdle

\* lines 138-150: the request is sent with n and the stream is returned
RequestSucceeds ==
  /\ pc = "call"
  /\ requestN' = RequestCount(number)
  /\ pc' = "returned"
  /\ UNCHANGED <<number, err, thrown, extractVars, stripVars, streamVars, fullVars, dataVars, ttyVars>>

\* lines 138-152: the request is sent with n and createChatCompletion throws
RequestFails ==
  /\ pc = "call"
  /\ requestN' = RequestCount(number)
  /\ \E e \in Errors : err' = e
  /\ pc' = "caught"
  /\ UNCHANGED <<number, thrown, extractVars, stripVars, streamVars, fullVars, dataVars, ttyVars>>

\* lines 152-201
HandleError ==
  /\ pc = "caught"
  /\ thrown' = CatchBlock(err)
  /\ pc' = "thrown"
  /\ UNCHANGED <<number, requestN, err, extractVars, stripVars, streamVars, fullVars, dataVars, ttyVars>>

NextGen == RequestSucceeds \/ RequestFails \/ HandleError

SpecGen == InitGen /\ [][NextGen]_vars

RequestSent == pc \in {"returned", "caught", "thrown"}

\* whether an error response has a non-empty body
HasBody(response) ==
  response.present /\ response.data.stream /\ response.data.value.text # ""

\* C7: every failure of the request yields exactly one outcome, chosen in this
\* order: code ENOTFOUND gives the connectivity KnownError (also when a
\* response is present); otherwise status 429 gives the quota KnownError;
\* otherwise an error response with a non-empty body gives the generic
\* KnownError carrying the status and the body; otherwise the original error
\* is re-thrown unchanged.
C7_FailureMapping ==
  pc = "thrown" =>
    IF err.code = "ENOTFOUND"
      THEN thrown.kind = "connectivity"
    ELSE IF err.response.present /\ err.response.status = 429
      THEN thrown.kind = "quota"
    ELSE IF HasBody(err.response)
      THEN /\ thrown.kind = "generic"
           /\ thrown.status = err.response.status
           /\ thrown.message = Message(err)
    ELSE thrown.kind = "rethrown" /\ thrown.error = err

\* C8: for every caller-supplied completion count, 0 and negative integers
\* included, the n of the outgoing request lies in 1..10.
C8_CountInRange == RequestSent => requestN \in 1..10

\* C9: the outgoing request carries n = c when the caller's count c is at most
\* 10, n = 10 when c > 10, and n = 1 when the caller gives no count.
C9_UpperClamp ==
  RequestSent =>
    requestN = IF ~number.given THEN 1
               ELSE IF number.value <= 10 THEN number.value ELSE 10

\* a request for 15 completions was sent with n = 10
C9_Witness ==
  pc = "returned" /\ number.given /\ number.value = 15 /\ requestN = 10

----------------------------------------------------------------------------
(* readFullResponse *)

\* lines 113-116 with the first and last arguments exchanged in +=
FullAppendPrepend(text, payload) ==
  IF StartsWithData(payload) THEN parseContent(payload) \o text ELSE text

\* lines 113-116 without the test of line 113
FullAppendAny(text, payload) == text \o parseContent(payload)

\* lines 113-116: fullResponse after a payload that is not the sentinel
FullAppend(text, payload) ==
  IF StartsWithData(payload) THEN text \o parseContent(payload) ELSE text

\* the payloads readFullResponse is given
FullPayloads ==
  { <<>>, <<DATA, DONE>>, <<DATA, Json(<<"a">>)>>, <<DATA, Json(<<"b", "\n">>)>>,
    <<DATA, Json(<<"[DONE]">>)>>, <<DATA, NoContentFrame>>, <<DATA, Junk>>,
    <<NL, DATA, Json(<<"a">>)>> }

InitFull ==
  /\ pc = "await"
  /\ stream \in Streams(FullPayloads, MaxPayloads)
  /\ ci = 0
  /\ payloads = <<>>
  /\ pi = 1
  /\ fullResponse = <<>>
  /\ ExtractIdle
  /\ StripIdle
  /\ GenIdle
  /\ DataIdle

\* line 106-107: the iterator yields the next chunk
FullNextChunk ==
  /\ pc = "await"
  /\ ci < Len(stream)
  /\ ci' = ci + 1
  /\ payloads' = Split(stream[ci + 1])
  /\ pi' = 1
  /\ pc' = "payload"
  /\ UNCHANGED <<stream, fullResponse, extractVars, stripVars, genVars, dataVars, ttyVars>>

\* lines 108-117: one pass of the inner loop
FullPayload ==
  /\ pc = "payload"
  /\ IF IncludesDone(payloads[pi])
       THEN /\ pc' = "returned"
            /\ UNCHANGED <<pi, fullResponse>>
       ELSE /\ fullResponse' = FullAppend(fullResponse, payloads[pi])
            /\ pi' = pi + 1
            /\ pc' = IF pi = Len(payloads) THEN "await" ELSE "payload"
  /\ UNCHANGED <<stream, ci, payloads, extractVars, stripVars, genVars, dataVars, ttyVars>>

\* line 120: the iterator is done
FullStreamEnds ==
  /\ pc = "await"
  /\ ci = Len(stream)
  /\ pc' = "returned"
  /\ UNCHANGED <<streamVars, fullResponse, extractVars, stripVars, genVars, dataVars, ttyVars>>

\* line 106: the iterator throws and the call rejects
FullStreamThrows ==
  /\ pc = "await"
  /\ pc' = "rejected"
  /\ UNCHANGED <<streamVars, fullResponse, extractVars, stripVars, genVars, dataVars, ttyVars>>

NextFull == FullNextChunk \/ FullPayload \/ FullStreamEnds \/ FullStreamThrows

SpecFull == InitFull /\ [][NextFull]_vars

----------------------------------------------------------------------------
(* readData *)

\* exclusion patterns: line 30
FenceLine == [type |-> "regex", src |-> "'''[a-zA-Z]*\\n"]
FenceOpen == [type |-> "regex", src |-> "'''[a-zA-Z]*"]
NewLine == [type |-> "string", src |-> "\n"]
shellCodeExclusions == <<FenceLine, FenceOpen, NewLine>>

\* the atoms that are runs of letters
IsLetters(a) ==
  a \in {"sh", "bash", "SH", "BASH", "ls", "a", "b", "x", "Error", "data", "SyntaxError"}

\* how many atoms from position i are letters: the greedy [a-zA-Z]*
RECURSIVE LettersFrom(_, _)
LettersFrom(s, i) ==
  IF i <= Len(s) /\ IsLetters(s[i]) THEN 1 + LettersFrom(s, i + 1) ELSE 0

\* the text written backquote by backquote: the atom "'" is one backquote,
\* "''" two, and a fence atom three
RECURSIVE Backquotes(_)
Backquotes(s) ==
  IF s = <<>> THEN <<>>
  ELSE (CASE Head(s) = "'''" -> <<"'", "'", "'">>
          [] Head(s) = "''"  -> <<"'", "'">>
          [] OTHER           -> <<Head(s)>>) \o Backquotes(Tail(s))

\* three backquotes stand at position i of t
FenceAt(t, i) == i + 2 <= Len(t) /\ t[i] = "'" /\ t[i + 1] = "'" /\ t[i + 2] = "'"

\* the length of the match of pattern at position i of t, or -1; t is written
\* backquote by backquote
MatchLen(pattern, t, i) ==
  CASE pattern = FenceLine ->
         IF FenceAt(t, i) /\ i + 3 + LettersFrom(t, i + 3) <= Len(t)
                          /\ t[i + 3 + LettersFrom(t, i + 3)] = "\n"
           THEN 4 + LettersFrom(t, i + 3) ELSE -1
    [] pattern = FenceOpen ->
         IF FenceAt(t, i) THEN 3 + LettersFrom(t, i + 3) ELSE -1
    [] pattern = NewLine ->
         IF t[i] = "\n" THEN 1 ELSE -1

\* s.match(pattern) is not null
Matches(s, pattern) ==
  LET t == Backquotes(s)
  IN  \E i \in 1..Len(t) : MatchLen(pattern, t, i) >= 0

\* s.replaceAll(pattern, '')
RECURSIVE ReplaceAllFrom(_, _, _)
ReplaceAllFrom(s, pattern, i) ==
  IF i > Len(s) THEN <<>>
  ELSE IF MatchLen(pattern, s, i) >= 0
    THEN ReplaceAllFrom(s, pattern, i + MatchLen(pattern, s, i))
  ELSE <<s[i]>> \o ReplaceAllFrom(s, pattern, i + 1)

\* every pattern of the list, in order, replaced by '' throughout t
RECURSIVE StripEach(_, _)
StripEach(t, patternList) ==
  IF patternList = <<>> THEN t
  ELSE StripEach(ReplaceAllFrom(t, Head(patternList), 1), Tail(patternList))

\* stripRegexPatterns(inputString, patternList): every pattern, in order,
\* stripped out of the string; the result is written backquote by backquote
stripRegexPatterns(inputString, patternList) ==
  IF patternList = <<>> THEN inputString
  ELSE StripEach(Backquotes(inputString), patternList)

\* line 315 with the empty pattern in the place of excludedPrefix
BoundaryMatchAlways(text, patterns) == TRUE

\* line 315: buffer.match(excludedPrefix ?? ''); the empty pattern matches
\* every string
BoundaryMatch(text, patterns) ==
  IF patterns = <<>> THEN TRUE ELSE Matches(text, patterns[1])

\* line 319 with the break taken whether or not a pattern was given
BreakAlways(patterns) == TRUE

\* line 319: if (excludedPrefix)
BreakAtBoundary(patterns) == patterns # <<>>

\* line 303 without the flag
StopOnSentinelOnly(payload, stop) == IncludesDone(payload)

\* line 303: the test that ends the call
StopHere(payload, stop) == IncludesDone(payload) \/ stop

\* line 330 left out: data grows and the writer is not called
WriteNothing(log, fragment) == log

\* line 330 with the fragment written twice
WriteTwice(log, fragment) == Append(Append(log, fragment), fragment)

\* line 330: writer(contentWithoutExcluded)
Write(log, fragment) == Append(log, fragment)

\* line 287
stopTextStreamKeys == {"q", "escape"}
Keys == stopTextStreamKeys \cup {"x"}

\* the payloads readData is given
DataPayloads ==
  { <<>>, <<DATA, DONE>>, <<DATA, Json(<<"'''">>)>>, <<DATA, Json(<<"sh", "\n">>)>>,
    <<DATA, Json(<<"ls">>)>>, <<DATA, NoContentFrame>>, <<DATA, Junk>> }

\* the exclusion lists readData is given
Exclusions == {<<>>, shellCodeExclusions, <<NewLine>>}

InitData ==
  /\ pc = "start"
  /\ stream \in Streams(DataPayloads, MaxPayloads)
  /\ ci = 0
  /\ payloads = <<>>
  /\ pi = 1
  /\ excluded \in Exclusions
  /\ stopTextStream = FALSE
  /\ data = <<>>
  /\ dataStart = FALSE
  /\ buffer = <<>>
  /\ sink = <<>>
  /\ resolved = <<>>
  /\ rl = "none"
  /\ rawMode = FALSE
  /\ keypressListeners = 0
  /\ fullResponse = <<>>
  /\ ExtractIdle
  /\ StripIdle
  /\ GenIdle

\* lines 279-299: the executor runs up to the first await
ReadDataCall ==
  /\ pc = "start"
  /\ rl' = "open"
  /\ rawMode' = TRUE
  /\ keypressListeners' = keypressListeners + 1
  /\ pc' = "await"
  /\ UNCHANGED <<streamVars, dataVars, fullVars, extractVars, stripVars, genVars>>

\* lines 295-299 with the listener run in the middle of a chunk as well
KeypressAnytime ==
  /\ pc \in {"await", "payload", "resolved", "unsettled"}
  /\ keypressListeners > 0
  /\ \E key \in Keys :
       stopTextStream' = (stopTextStream \/ key \in stopTextStreamKeys)
  /\ UNCHANGED <<pc, streamVars, excluded, data, dataStart, buffer, sink, resolved,
                 ttyVars, fullVars, extractVars, stripVars, genVars>>

\* lines 295-299: the keypress listener; it runs only while no other code
\* does, and it is never removed
Keypress ==
  /\ pc \in {"await", "resolved", "unsettled"}
  /\ keypressListeners > 0
  /\ \E key \in Keys :
       stopTextStream' = (stopTextStream \/ key \in stopTextStreamKeys)
  /\ UNCHANGED <<pc, streamVars, excluded, data, dataStart, buffer, sink, resolved,
                 ttyVars, fullVars, extractVars, stripVars, genVars>>

\* lines 300-301: the iterator yields the next chunk
DataNextChunk ==
  /\ pc = "await"
  /\ ci < Len(stream)
  /\ ci' = ci + 1
  /\ payloads' = Split(stream[ci + 1])
  /\ pi' = 1
  /\ pc' = "payload"
  /\ UNCHANGED <<stream, dataVars, ttyVars, fullVars, extractVars, stripVars, genVars>>

\* lines 303-307: the call resolves at this payload
DataResolveAtPayload ==
  /\ pc = "payload"
  /\ StopHere(payloads[pi], stopTextStream)
  /\ dataStart' = FALSE
  /\ resolved' = data
  /\ pc' = "resolved"
  /\ UNCHANGED <<streamVars, excluded, stopTextStream, data, buffer, sink,
                 ttyVars, fullVars, extractVars, stripVars, genVars>>

\* lines 309-332: one pass of the inner loop over a payload that does not end
\* the call
DataPayload ==
  /\ pc = "payload"
  /\ ~StopHere(payloads[pi], stopTextStream)
  /\ LET payload  == payloads[pi]
         content  == parseContent(payload)
         detect   == StartsWithData(payload) /\ ~dataStart
         crossed  == detect /\ BoundaryMatch(buffer \o content, excluded)
         break    == crossed /\ BreakAtBoundary(excluded)
         started  == IF crossed THEN TRUE ELSE dataStart
         forward  == StartsWithData(payload) /\ ~break /\ started /\ content # <<>>
         stripped == stripRegexPatterns(content, excluded)
     IN  /\ buffer' = IF crossed THEN <<>>
                      ELSE IF detect THEN buffer \o content ELSE buffer
         /\ dataStart' = started
         /\ data' = IF forward THEN data \o stripped ELSE data
         /\ sink' = IF forward THEN Write(sink, stripped) ELSE sink
         /\ pi' = IF break THEN Len(payloads) + 1 ELSE pi + 1
         /\ pc' = IF break \/ pi = Len(payloads) THEN "await" ELSE "payload"
  /\ UNCHANGED <<stream, ci, payloads, excluded, stopTextStream, resolved,
                 ttyVars, fullVars, extractVars, stripVars, genVars>>

\* line 336: the iterator is done
DataStreamEnds ==
  /\ pc = "await"
  /\ ci = Len(stream)
  /\ resolved' = data
  /\ pc' = "resolved"
  /\ UNCHANGED <<streamVars, excluded, stopTextStream, data, dataStart, buffer, sink,
                 ttyVars, fullVars, extractVars, stripVars, genVars>>

\* line 300: the iterator throws; the async executor's own promise rejects
\* and resolve is never called
DataStreamThrows ==
  /\ pc = "await"
  /\ pc' = "unsettled"
  /\ UNCHANGED <<streamVars, dataVars, ttyVars, fullVars, extractVars, stripVars, genVars>>

NextData ==
  \/ ReadDataCall
  \/ Keypress
  \/ DataNextChunk
  \/ DataResolveAtPayload
  \/ DataPayload
  \/ DataStreamEnds
  \/ DataStreamThrows

SpecData == InitData /\ [][NextData]_vars

----------------------------------------------------------------------------
(* Both readers, and streams the transport has cut inside a record *)

\* records of a stream that is cut
SplitRecords == {<<DATA, Json(<<"ls">>)>>, <<DATA, Json(<<"sh", "\n">>)>>}

\* the transport cuts between the two newlines that separate p from q
DelimiterSplit(p, q) == <<p \o <<NL>>, <<NL>> \o q>>

\* the transport cuts inside the JSON of the record between p and q
FrameSplit(p, q) == <<Join(<<p, <<DATA, Junk>>>>), Join(<<<<JunkTail>>, q>>)>>

\* the streams with one cut, ended by the sentinel
SplitStreams ==
  { cut \o <<<<DATA, DONE>>>> :
      cut \in { DelimiterSplit(p, q) : p, q \in SplitRecords }
                \cup { FrameSplit(p, q) : p, q \in SplitRecords } }

InitSplit ==
  /\ stream \in SplitStreams
  /\ ci = 0
  /\ payloads = <<>>
  /\ pi = 1
  /\ fullResponse = <<>>
  /\ stopTextStream = FALSE
  /\ data = <<>>
  /\ dataStart = FALSE
  /\ buffer = <<>>
  /\ sink = <<>>
  /\ resolved = <<>>
  /\ rl = "none"
  /\ rawMode = FALSE
  /\ keypressListeners = 0
  /\ ExtractIdle
  /\ StripIdle
  /\ GenIdle
  /\ \/ pc = "await" /\ excluded = <<>>          \* readFullResponse
     \/ pc = "start" /\ excluded \in Exclusions   \* readData

InitReaders == InitFull \/ InitData \/ InitSplit

\* the call under way is one of readFullResponse: readData holds the readline
\* interface from its first step on
ReadingFull == pc # "start" /\ rl = "none"

NextReaders ==
  \/ ReadingFull /\ NextFull
  \/ ~ReadingFull /\ NextData

SpecReaders == InitReaders /\ [][NextReaders]_vars

----------------------------------------------------------------------------
(* stripRegexPatterns: its calls *)

\* longest fragment given to stripRegexPatterns, in atoms
MaxFragment == 4

\* the atoms fragments are drawn from
FragmentAtoms == {"'", "''", "'''", "sh", "\n"}

\* the pattern lists stripRegexPatterns is given
PatternLists == Exclusions \cup {<<FenceLine>>, <<FenceOpen>>}

InitStrip ==
  /\ pc = "strip"
  /\ stripInput \in SeqUpTo(FragmentAtoms, MaxFragment)
  /\ excluded \in PatternLists
  /\ stripOnce = <<>>
  /\ stripTwice = <<>>
  /\ stopTextStream = FALSE
  /\ data = <<>>
  /\ dataStart = FALSE
  /\ buffer = <<>>
  /\ sink = <<>>
  /\ resolved = <<>>
  /\ rl = "none"
  /\ rawMode = FALSE
  /\ keypressListeners = 0
  /\ fullResponse = <<>>
  /\ StreamIdle
  /\ ExtractIdle
  /\ GenIdle

\* lines 324-327: the call of stripRegexPatterns on a fragment
Strip ==
  /\ pc = "strip"
  /\ stripOnce' = stripRegexPatterns(stripInput, excluded)
  /\ pc' = "stripped"
  /\ UNCHANGED <<stripInput, stripTwice, streamVars, fullVars, dataVars, ttyVars,
                 extractVars, genVars>>

\* the same call on the fragment the first call returned
StripAgain ==
  /\ pc = "stripped"
  /\ stripTwice' = stripRegexPatterns(stripOnce, excluded)
  /\ pc' = "restripped"
  /\ UNCHANGED <<stripInput, stripOnce, streamVars, fullVars, dataVars, ttyVars,
                 extractVars, genVars>>

NextStrip == Strip \/ StripAgain

SpecStrip == InitStrip /\ [][NextStrip]_vars

\* C13: for every fragment f and every exclusion list E (the shell-code
\* exclusion list among them), stripping E from the already-stripped fragment
\* gives the same fragment: strip(strip(f, E), E) = strip(f, E).
C13_StripIdempotent ==
  pc = "restripped" => stripTwice = stripOnce

----------------------------------------------------------------------------
(* What the claims speak of: the payloads of a stream and their deltas *)

\* every payload of the stream, in arrival order
AllPayloads == SplitAll(stream)

\* how many payloads the inner loop has gone past
PassedCount ==
  IF ci = 0 THEN 0 ELSE Len(SplitAll(SubSeq(stream, 1, ci - 1))) + pi - 1

\* index of the first payload that holds [DONE], 0 when there is none
FirstDone(ps) ==
  IF \E i \in 1..Len(ps) : IncludesDone(ps[i])
    THEN CHOOSE i \in 1..Len(ps) :
           IncludesDone(ps[i]) /\ \A j \in 1..(i - 1) : ~IncludesDone(ps[j])
    ELSE 0

\* the payloads that precede the first [DONE] payload (all, when there is none)
BeforeDone(ps) ==
  IF FirstDone(ps) = 0 THEN ps ELSE SubSeq(ps, 1, FirstDone(ps) - 1)

\* the decoded contents of the data: payloads of ps, in order
RECURSIVE DeltasOf(_)
DeltasOf(ps) ==
  IF ps = <<>> THEN <<>>
  ELSE (IF StartsWithData(Head(ps)) THEN <<parseContent(Head(ps))>> ELSE <<>>)
         \o DeltasOf(Tail(ps))

\* the non-empty texts of a sequence of texts
RECURSIVE NonEmpty(_)
NonEmpty(ts) ==
  IF ts = <<>> THEN <<>>
  ELSE (IF Head(ts) # <<>> THEN <<Head(ts)>> ELSE <<>>) \o NonEmpty(Tail(ts))

\* the call has ended at a payload that holds [DONE]
AtSentinel ==
  pc \in {"returned", "resolved"} /\ pi <= Len(payloads) /\ IncludesDone(payloads[pi])

\* readData has ended at a payload because of the flag alone
Cancelled ==
  pc = "resolved" /\ pi <= Len(payloads) /\ ~IncludesDone(payloads[pi])

----------------------------------------------------------------------------
(* Claims *)

\* C1: readFullResponse, for every chunk sequence that contains a [DONE]
\* payload: the returned text is the concatenation, in arrival order, of the
\* decoded content of every data: payload that precedes the [DONE] payload, and
\* no payload after [DONE] is consumed.
C1_FullResponseUpToDone ==
  (pc = "returned" /\ FirstDone(AllPayloads) > 0) =>
    /\ fullResponse = Concat(DeltasOf(BeforeDone(AllPayloads)))
    /\ AtSentinel
    /\ PassedCount = FirstDone(AllPayloads) - 1

\* readFullResponse returned at a [DONE] payload that a delta precedes and a
\* payload follows
C1_Witness ==
  /\ pc = "returned"
  /\ AtSentinel
  /\ FirstDone(AllPayloads) = 2
  /\ Len(AllPayloads) = 3
  /\ fullResponse = <<"b", "\n">>

\* the deltas that arrived before the first [DONE] payload
DeltasBeforeDone == DeltasOf(BeforeDone(AllPayloads))

\* index in ds of the delta at which the accumulated buffer first matches the
\* pattern, 0 when it never does
BoundaryIndex(ds, pattern) ==
  LET hit(k) == Matches(Concat(SubSeq(ds, 1, k)), pattern)
  IN  IF \E k \in 1..Len(ds) : hit(k)
        THEN CHOOSE k \in 1..Len(ds) : hit(k) /\ \A j \in 1..(k - 1) : ~hit(j)
        ELSE 0

\* the exclusion-stripped images of the texts ts
StrippedAll(ts) == [i \in 1..Len(ts) |-> stripRegexPatterns(ts[i], excluded)]

\* C2: readData with an exclusion pattern, for every payload sequence and every
\* grouping into chunks: the deltas up to and including the one at which the
\* buffer first matches the first exclusion pattern are withheld from the sink
\* and from the returned text, and every non-empty delta that arrives after
\* that boundary delta and before [DONE] is forwarded, stripped, in order.
C2_ForwardAfterBoundary ==
  (pc = "resolved" /\ AtSentinel /\ excluded # <<>>) =>
    LET ds == DeltasBeforeDone
        b  == BoundaryIndex(ds, excluded[1])
        after == IF b = 0 THEN <<>> ELSE SubSeq(ds, b + 1, Len(ds))
    IN  /\ sink = StrippedAll(NonEmpty(after))
        /\ resolved = Concat(sink)

\* C3: on every exit path of one readData call (resolution on [DONE], on
\* cancellation, at the end of the stream, and a stream error) raw mode is
\* disabled again, the keypress listener is removed and the readline interface
\* is closed.
C3_ResourcesReleased ==
  pc \in {"resolved", "unsettled"} =>
    /\ ~rawMode
    /\ keypressListeners = 0
    /\ rl # "open"

\* C4: once stopTextStream has been set by a q or escape keypress, the sink is
\* never invoked again, and the text the promise resolves with is the value
\* data had when the flag was set (data does not change from then on and the
\* promise resolves with it).
C4_Cancellation ==
  [][stopTextStream' =>
       /\ sink' = sink
       /\ data' = data
       /\ (pc' = "resolved" => resolved' = data)]_vars

\* readData resolved because of the flag, with fragments already forwarded, at
\* a payload that carries a further non-empty delta
C4_Witness ==
  /\ Cancelled
  /\ stopTextStream
  /\ sink # <<>>
  /\ resolved = Concat(sink)
  /\ StartsWithData(payloads[pi])
  /\ parseContent(payloads[pi]) # <<>>

\* C5: readData with no exclusion pattern: forwarding starts at the first
\* delta, every non-empty delta that precedes [DONE] is passed to the sink
\* unchanged, once and in arrival order, and the returned text is their
\* concatenation.
C5_NoExclusionForwardsAll ==
  (excluded = <<>> /\ pc # "start") =>
    LET passed == NonEmpty(DeltasOf(SubSeq(AllPayloads, 1, PassedCount)))
    IN  /\ sink = passed
        /\ data = Concat(passed)
        /\ (AtSentinel =>
              /\ PassedCount = FirstDone(AllPayloads) - 1
              /\ sink = NonEmpty(DeltasBeforeDone)
              /\ resolved = Concat(NonEmpty(DeltasBeforeDone)))

\* readData without exclusions resolved at [DONE] after two non-empty deltas,
\* the first of them the very first payload
C5_Witness ==
  /\ excluded = <<>>
  /\ pc = "resolved"
  /\ AtSentinel
  /\ ~stopTextStream
  /\ Len(sink) = 2
  /\ StartsWithData(AllPayloads[1])
  /\ sink[1] = parseContent(AllPayloads[1])

\* ts is, in order, the stripped images of a subsequence of ds
RECURSIVE IsStrippedSubsequence(_, _)
IsStrippedSubsequence(ts, ds) ==
  \/ ts = <<>>
  \/ /\ ds # <<>>
     /\ \/ /\ Head(ts) = stripRegexPatterns(Head(ds), excluded)
           /\ IsStrippedSubsequence(Tail(ts), Tail(ds))
        \/ IsStrippedSubsequence(ts, Tail(ds))

\* C6: in every execution the fragments passed to the sink are, in order, the
\* exclusion-stripped images of a subsequence of the arriving deltas: no delta
\* is forwarded twice or out of order, and nothing but a whole stripped delta
\* is forwarded, also when the call is cancelled.
C6_SinkOrder ==
  IsStrippedSubsequence(sink, DeltasOf(SubSeq(AllPayloads, 1, PassedCount)))

\* with an exclusion list, the delta "sh\n" was forwarded stripped of its
\* newline after the boundary and the call was then cancelled
C6_Witness ==
  /\ excluded # <<>>
  /\ Cancelled
  /\ sink = << <<"sh">> >>

\* a data: payload without [DONE] whose body JSON.parse rejects
Malformed(payload) ==
  /\ StartsWithData(payload)
  /\ ~IncludesDone(payload)
  /\ LET body == DropTrailingNL(StripDataPrefix(payload))
     IN  ~(Len(body) = 1 /\ body[1].k \in {"json", "nocontent"})

\* C11: in readFullResponse and in readData, a data: payload whose body fails
\* JSON parsing never aborts or ends the stream: its diagnostic string is
\* appended to the output (in readData it is handled as any content is:
\* withheld up to the boundary, forwarded stripped after it), and the payload
\* that follows it is the next one processed.
C11_MalformedFailOpen ==
  [][(pc = "payload" /\ Malformed(payloads[pi]) /\ ~stopTextStream) =>
       LET diagnostic == ParseDiagnostic(payloads[pi])
           clean      == stripRegexPatterns(diagnostic, excluded)
       IN  /\ pc' = (IF pi < Len(payloads) THEN "payload" ELSE "await")
           /\ pi' = pi + 1
           /\ IF ReadingFull
                THEN fullResponse' = fullResponse \o diagnostic
              ELSE IF dataStart \/ excluded = <<>>
                THEN sink' = Append(sink, clean) /\ data' = data \o clean
              ELSE /\ sink' = sink
                   /\ data' = data
                   /\ \/ buffer' = buffer \o diagnostic
                      \/ dataStart' /\ buffer' = <<>>]_vars

\* how many newlines end the chunk
RECURSIVE TrailingNLs(_)
TrailingNLs(chunk) ==
  IF chunk # <<>> /\ chunk[Len(chunk)] = NL
    THEN 1 + TrailingNLs(SubSeq(chunk, 1, Len(chunk) - 1))
    ELSE 0

\* the chunks c and c + 1 are the two sides of a cut: of the blank line
\* between two records (split pairs the newlines that end chunk c from the
\* left and one is left over), or of the JSON of a record
SplitBoundary(c) ==
  /\ c \in 1..(Len(stream) - 1)
  /\ stream[c] # <<>>
  /\ stream[c + 1] # <<>>
  /\ LET left  == stream[c][Len(stream[c])]
         right == stream[c + 1][1]
     IN  \/ TrailingNLs(stream[c]) % 2 = 1 /\ right = NL
         \/ left = Junk /\ right = JunkTail

\* the payload the inner loop is at is one of the two payloads of a cut
AtSplitPayload ==
  /\ pc = "payload"
  /\ \/ pi = Len(payloads) /\ SplitBoundary(ci)
     \/ pi = 1 /\ SplitBoundary(ci - 1)

\* C12: when the transport cuts a record boundary (the double newline) or a
\* record's JSON between two consecutive chunks, each of the two resulting
\* payloads goes through the decode-failure path (its diagnostic fragment is
\* added to the output; in readData, with no exclusion list, it is forwarded)
\* and the reader goes on: no such payload is dropped without trace.
C12_SplitYieldsDiagnostics ==
  [][(AtSplitPayload /\ ~stopTextStream) =>
       LET diagnostic == ParseDiagnostic(payloads[pi])
       IN  /\ pc' \in {"payload", "await"}
           /\ ReadingFull => fullResponse' = fullResponse \o diagnostic
           /\ (~ReadingFull /\ excluded = <<>>) =>
                sink' = Append(sink, diagnostic) /\ data' = data \o diagnostic]_vars

\* a payload that neither starts with data: nor holds [DONE]
Ignorable(payload) == ~StartsWithData(payload) /\ ~IncludesDone(payload)

\* C16 as stated: in readFullResponse and in readData, processing a payload
\* that neither starts with data: nor contains [DONE] leaves the accumulated
\* text, the start-detection buffer and the dataStart flag unchanged and does
\* not invoke the sink.
C16_NonDataIgnored ==
  [][(pc = "payload" /\ Ignorable(payloads[pi])) =>
       /\ fullResponse' = fullResponse
       /\ data' = data
       /\ buffer' = buffer
       /\ dataStart' = dataStart
       /\ sink' = sink]_vars

\* C16 as amended: such a payload leaves the accumulated text and the
\* start-detection buffer unchanged and does not invoke the sink; with the
\* cancellation flag unset it leaves dataStart unchanged too and the loop goes
\* on, with the flag set readData resolves at it with data and resets
\* dataStart.
C16_NonDataIgnoredUnlessCancelled ==
  [][(pc = "payload" /\ Ignorable(payloads[pi])) =>
       /\ fullResponse' = fullResponse
       /\ data' = data
       /\ buffer' = buffer
       /\ sink' = sink
       /\ IF stopTextStream
            THEN ~dataStart' /\ pc' = "resolved" /\ resolved' = data
            ELSE dataStart' = dataStart /\ pc' \in {"payload", "await"} /\ pi' = pi + 1]_vars

\* readData, forwarding, has gone past a payload that is not a data: payload
\* and has kept what it had forwarded
C16_Witness ==
  /\ ~ReadingFull
  /\ pc \in {"payload", "await"}
  /\ excluded = <<>>
  /\ ~stopTextStream
  /\ PassedCount >= 2
  /\ Ignorable(AllPayloads[PassedCount])
  /\ dataStart
  /\ sink # <<>>

\* C14: readData, for every payload sequence, with or without an exclusion
\* pattern and for every grouping into chunks: the loop never goes past the
\* first [DONE] payload (the promise resolves there), and no delta that arrives
\* after that payload is forwarded to the sink or is part of the returned text.
C14_TerminatesOnSentinel ==
  FirstDone(AllPayloads) > 0 =>
    /\ PassedCount < FirstDone(AllPayloads)
    /\ IsStrippedSubsequence(sink, DeltasBeforeDone)
    /\ pc = "resolved" => resolved = Concat(sink)

\* C15: the keypress callback runs only while the reader waits for the next
\* chunk: no step taken inside a chunk changes stopTextStream, every payload
\* past the first of its chunk is processed with the flag unset, a resolution
\* at such a payload is due to [DONE], and with the flag set the call resolves
\* with data at the first payload of the next chunk that arrives.
C15_CancelNotMidChunk ==
  [][/\ pc = "payload" => stopTextStream' = stopTextStream
     /\ (pc = "payload" /\ pi > 1) => ~stopTextStream
     /\ (pc = "payload" /\ pi > 1 /\ pc' = "resolved") => IncludesDone(payloads[pi])
     /\ (pc = "payload" /\ stopTextStream) =>
          pi = 1 /\ pc' = "resolved" /\ resolved' = data]_vars

\* after a first chunk was processed whole, readData resolved because of the
\* flag at the first payload of a chunk that holds further payloads
C15_Witness ==
  /\ Cancelled
  /\ stopTextStream
  /\ ci >= 2
  /\ pi = 1
  /\ Len(payloads) >= 2

\* C17: for every stream that ends, by a [DONE] payload, by the transport
\* closing or by the iterator raising an error, the promise readData returned
\* settles: once the executor has left its loop the promise is not pending.
C17_SettlesOnEveryEnding ==
  pc \in {"resolved", "unsettled"} => pc = "resolved"

\* C18: in every reachable state of a readData call data is the concatenation,
\* in call order, of the fragments passed to the sink so far, and the text the
\* promise resolves with is that concatenation, on [DONE], on cancellation and
\* when the transport closes.
C18_DataIsConcatOfSink ==
  /\ data = Concat(sink)
  /\ pc = "resolved" => resolved = Concat(sink)

\* the transport closed without a sentinel after two fragments were forwarded
C18_Witness ==
  /\ pc = "resolved"
  /\ pi > Len(payloads)
  /\ FirstDone(AllPayloads) = 0
  /\ Len(sink) = 2
  /\ resolved = sink[1] \o sink[2]

\* before the call resolves, dataStart = false means nothing was forwarded
NothingBeforeBoundary ==
  (pc # "resolved" /\ ~dataStart) => (sink = <<>> /\ data = <<>>)

\* the buffer has not matched the first exclusion pattern at any payload gone
\* past
NeverMatched ==
  BoundaryIndex(DeltasOf(SubSeq(AllPayloads, 1, PassedCount)), excluded[1]) = 0

\* C19: until the call resolves, dataStart = false implies that the sink has
\* not been invoked and data is empty; once dataStart is true it stays true
\* and the buffer stays empty at every later payload; with an exclusion
\* pattern that the buffer never matches, nothing is forwarded and the call
\* resolves with the empty string.
C19_BoundaryMonotone ==
  [][/\ NothingBeforeBoundary
     /\ NothingBeforeBoundary'
     /\ dataStart => buffer = <<>>
     /\ (dataStart /\ pc' # "resolved") => (dataStart' /\ buffer' = <<>>)
     /\ (pc # "resolved" /\ pc' = "resolved" /\ excluded # <<>> /\ NeverMatched) =>
          (sink' = <<>> /\ resolved' = <<>>)]_vars

\* with the shell-code exclusions, deltas arrived that never completed a fence
\* line and the call resolved at [DONE] with the empty string
C19_Witness ==
  /\ pc = "resolved"
  /\ AtSentinel
  /\ excluded = shellCodeExclusions
  /\ buffer # <<>>
  /\ NeverMatched
  /\ sink = <<>>
  /\ resolved = <<>>

----------------------------------------------------------------------------
(* extractScriptAndExplanation: its calls *)

\* the atoms response texts are drawn from
ResponseAtoms == {"'''", "sh", "\n", " ", "x"}

NoPair == [script |-> <<>>, explanation |-> <<>>]

InitExtract ==
  /\ pc = "extract"
  /\ input \in SeqUpTo(ResponseAtoms, MaxText)
  /\ extracted = NoPair
  /\ StripIdle
  /\ GenIdle
  /\ StreamIdle
  /\ fullResponse = <<>>
  /\ DataIdle

\* getScriptAndInfo / getRevision: the call of extractScriptAndExplanation
Extract ==
  /\ pc = "extract"
  /\ extracted' = extractScriptAndExplanation(input)
  /\ pc' = "extracted"
  /\ UNCHANGED <<input, genVars, streamVars, fullVars, dataVars, ttyVars, stripVars>>

NextExtract == Extract

SpecExtract == InitExtract /\ [][NextExtract]_vars

\* C10: for every response text, if it contains a fenced block tagged bash, sh
\* or untagged (a block with an empty interior included), the result is
\* script = the trimmed interior of the first such block and explanation = the
\* input with that block (fences included) removed and trimmed; with no such
\* block the result is script = '' and explanation = the trimmed input.
C10_ExtractAsClaimed ==
  pc = "extracted" =>
    LET m == codeBlockRegex(input)
    IN  IF m.found
          THEN /\ extracted.script = Trim(Interior(input, m))
               /\ extracted.explanation = Trim(WithoutBlock(input, m))
          ELSE /\ extracted.script = <<>>
               /\ extracted.explanation = Trim(input)

====
